---- MODULE Spec2Model ----
(***************************************************************************)
(* A model of the line-oriented calculator of simple_lexer: the parser of  *)
(* src/src/parser.rs (Parser::parse and its recursive descent) and the     *)
(* evaluator of src/src/eval.rs (EvalContext).                             *)
(*                                                                         *)
(* Positions are 0-based as in the code: input.get(p) is input[p + 1].     *)
(* Strings are sequences of one-character strings, so that value.len()     *)
(* and value.parse() are computed.  f64 values are exact rationals         *)
(* [n, d] with d > 0, plus d = 0 for the IEEE specials (n = 1: +inf,       *)
(* n = -1: -inf, n = 0: NaN); rounding and the sign of zero are not        *)
(* modelled.                                                               *)
(***************************************************************************)
EXTENDS Integers, Sequences, FiniteSets

VARIABLES input, position, line, results, calls, pc, parsed, syms, evaluated, printed

vars == <<input, position, line, results, calls, pc, parsed, syms, evaluated, printed>>

(***************************************************************************)
(* Bounds of the model.                                                    *)
(***************************************************************************)
\* longest single-line input over ExprWords
MaxLen == 5
\* longest single-line input over AllWords
MaxShort == 3
\* most tokens of a multi-line input over LineWords
MaxTokens == 4
\* largest line index of a multi-line input
MaxLine == 2
\* longest single-line input over ParenWords
MaxParen == 7
\* most statements of a session over Statements
MaxStatements == 3

(***************************************************************************)
(* Strings and numbers.                                                    *)
(***************************************************************************)
Digits == <<"0", "1", "2", "3", "4", "5", "6", "7", "8", "9">>

IsDigit(c) == \E i \in 1..10 : Digits[i] = c

DigitVal(c) == (CHOOSE i \in 1..10 : Digits[i] = c) - 1

Abs(x) == IF x < 0 THEN 0 - x ELSE x

RECURSIVE Gcd(_, _)
Gcd(a, b) == IF b = 0 THEN a ELSE Gcd(b, a % b)

\* a rational in lowest terms with a positive denominator; d = 0 is an IEEE special
Rat(n, d) ==
    IF d = 0 THEN [n |-> IF n > 0 THEN 1 ELSE IF n < 0 THEN 0 - 1 ELSE 0, d |-> 0]
    ELSE LET g == Gcd(Abs(n), Abs(d))
             s == IF d < 0 THEN 0 - 1 ELSE 1
         IN  [n |-> (s * n) \div g, d |-> (s * d) \div g]

Zero == Rat(0, 1)

RECURSIVE Pow10(_)
Pow10(k) == IF k = 0 THEN 1 ELSE 10 * Pow10(k - 1)

RECURSIVE DigitsValue(_)
DigitsValue(ds) ==
    IF ds = <<>> THEN 0
    ELSE 10 * DigitsValue(SubSeq(ds, 1, Len(ds) - 1)) + DigitVal(ds[Len(ds)])

\* str::parse::<f64> on a run of digits and '.': at most one '.', at least one digit
ParseF64(text) ==
    LET dots == SelectSeq(text, LAMBDA c : c = ".")
        digs == SelectSeq(text, IsDigit)
        dot  == IF dots = <<>> THEN Len(text) + 1
                ELSE CHOOSE i \in 1..Len(text) : text[i] = "." /\ \A j \in 1..(i - 1) : text[j] # "."
    IN  IF Len(dots) > 1 \/ digs = <<>> \/ Len(dots) + Len(digs) # Len(text)
        THEN [ok |-> FALSE, val |-> Zero]
        ELSE [ok |-> TRUE,
              val |-> Rat(DigitsValue(digs), Pow10(IF dots = <<>> THEN 0 ELSE Len(text) - dot))]

(***************************************************************************)
(* Tokens (crate::lexer::Token, built by the lexer).                       *)
(***************************************************************************)
Word(t, v) == [ttype |-> t, value |-> v]

Num3 == Word("Number", <<"3">>)
Num25 == Word("Number", <<"2", ".", "5">>)
IdHi == Word("Identifier", <<"h", "i">>)
IdHello == Word("Identifier", <<"h", "e", "l", "l", "o">>)
IdPI == Word("Identifier", <<"P", "I">>)
WPlus == Word("Plus", <<"+">>)
WMinus == Word("Minus", <<"-">>)
WTimes == Word("Times", <<"*">>)
WDiv == Word("Div", <<"/">>)
WGt == Word("GreaterThan", <<">">>)
WGe == Word("GreaterThanOrEqual", <<">", "=">>)
WLt == Word("LessThan", <<"<">>)
WLe == Word("LessThanOrEqual", <<"<", "=">>)
WEq == Word("Equal", <<"=", "=">>)
WAssign == Word("Assign", <<"=">>)
WOpen == Word("LeftParenthesis", <<"(">>)
WClose == Word("RightParenthesis", <<")">>)

\* the words of the four input families
AllWords ==
    {Num3, Num25, IdHi, IdHello, IdPI, WPlus, WMinus, WTimes, WDiv, WGt, WGe, WLt, WLe, WEq,
     WAssign, WOpen, WClose}

ExprWords == {IdHi, WPlus, WTimes, WLt, WAssign, WOpen, WClose}

ParenWords == {Num3, WLt, WOpen, WClose}

LineWords == {Num3, IdHi, WPlus, WAssign}

SeqsUpTo(S, n) == UNION {[1..k -> S] : k \in 0..n}

RECURSIVE ColumnOf(_, _, _)
\* the column of word i: the words of a line are separated by one space
ColumnOf(words, lineOf, i) ==
    IF i = 1 \/ lineOf[i - 1] # lineOf[i] THEN 0
    ELSE ColumnOf(words, lineOf, i - 1) + Len(words[i - 1].value) + 1

\* the lexer's output for the words `words`, word i standing on line lineOf[i]
get_tokens(words, lineOf) ==
    [i \in 1..Len(words) |->
        [ttype |-> words[i].ttype, value |-> words[i].value,
         line |-> lineOf[i], column |-> ColumnOf(words, lineOf, i)]]

NonDecreasing(f, n) == \A i \in 1..(n - 1) : f[i] <= f[i + 1]

\* the line indices a multi-line input may carry: blank lines anywhere
LineMaps(n) == {f \in [1..n -> 0..MaxLine] : NonDecreasing(f, n)}

\* the statements of the evaluation sessions, one to a line:
\* hi = 3, PI = 2.5, hi = PI, hi = hello, PI = hello, hi, PI, hi + hello,
\* hi = 3 - 3, hi * hello, hi * PI, 3 < PI
Statements ==
    {<<IdHi, WAssign, Num3>>, <<IdPI, WAssign, Num25>>, <<IdHi, WAssign, IdPI>>,
     <<IdHi, WAssign, IdHello>>, <<IdPI, WAssign, IdHello>>, <<IdHi>>, <<IdPI>>,
     <<IdHi, WPlus, IdHello>>, <<IdHi, WAssign, Num3, WMinus, Num3>>,
     <<IdHi, WTimes, IdHello>>, <<IdHi, WTimes, IdPI>>, <<Num3, WLt, IdPI>>}

ButLastStatement(ss) == SubSeq(ss, 1, Len(ss) - 1)

RECURSIVE SessionWords(_)
\* the words of a session, statement after statement
SessionWords(ss) == IF ss = <<>> THEN <<>> ELSE SessionWords(ButLastStatement(ss)) \o ss[Len(ss)]

RECURSIVE SessionLines(_)
\* the line of each word of a session: statement k stands on line k - 1
SessionLines(ss) ==
    IF ss = <<>> THEN <<>>
    ELSE SessionLines(ButLastStatement(ss)) \o [i \in 1..Len(ss[Len(ss)]) |-> Len(ss) - 1]

\* the inputs of the model: single lines, several lines with blank lines, sessions
IsInput(inp) ==
    \/ \E w \in SeqsUpTo(ExprWords, MaxLen) : inp = get_tokens(w, [i \in 1..Len(w) |-> 0])
    \/ \E w \in SeqsUpTo(AllWords, MaxShort) : inp = get_tokens(w, [i \in 1..Len(w) |-> 0])
    \/ \E w \in SeqsUpTo(ParenWords, MaxParen) : inp = get_tokens(w, [i \in 1..Len(w) |-> 0])
    \/ \E w \in SeqsUpTo(LineWords, MaxTokens) : \E f \in LineMaps(Len(w)) : inp = get_tokens(w, f)
    \/ \E ss \in SeqsUpTo(Statements, MaxStatements) :
          inp = get_tokens(SessionWords(ss), SessionLines(ss))

(***************************************************************************)
(* Parse trees and errors (NodeType, Location, ParseNode, ParsingError).   *)
(***************************************************************************)
Location(l, c) == <<l, c>>

Node(ntype, name, num, kids, location) ==
    [ntype |-> ntype, name |-> name, num |-> num, kids |-> kids, location |-> location]

NoNode == Node("None", <<>>, Zero, <<>>, Location(0, 0))

empty_root == Node("Root", <<>>, Zero, <<>>, Location(0, 0))

Error(etype, text, location) ==
    [etype |-> etype, text |-> text, location |-> location, errors |-> <<>>]

NoError == Error("None", <<>>, Location(0, 0))

MultipleErrors(errors) ==
    [etype |-> "MultipleErrors", text |-> <<>>, location |-> Location(0, 0), errors |-> errors]

\* ParseResult, with the cursor after the call; "panic" is an unwinding panic
Ok(node, pos) == [kind |-> "ok", node |-> node, err |-> NoError, pos |-> pos]

Err(err, pos) == [kind |-> "err", node |-> NoNode, err |-> err, pos |-> pos]

Panic(pos) == [kind |-> "panic", node |-> NoNode, err |-> NoError, pos |-> pos]

(***************************************************************************)
(* The parser's cursor (Parser { input, position, line }).  Every parsing  *)
(* operator takes the input, the line counter and the position, and        *)
(* returns a ParseResult holding the position it leaves.                   *)
(***************************************************************************)
\* input.get(pos + count).filter(|token| token.line == self.line)
has_ahead(inp, ln, pos, count) ==
    pos + count + 1 <= Len(inp) /\ inp[pos + count + 1].line = ln

look_ahead(inp, ln, pos, count) == inp[pos + count + 1]

has_current(inp, ln, pos) == has_ahead(inp, ln, pos, 0)

current(inp, ln, pos) == look_ahead(inp, ln, pos, 0)

\* &self.input[self.position - 1]: position 0 underflows (a panic in every build)
last_token_panics(pos) == pos = 0

last_token(inp, pos) == inp[pos]

\* Some(token) if token.ttype == token_type
check_current(inp, ln, pos, token_type) ==
    has_current(inp, ln, pos) /\ current(inp, ln, pos).ttype = token_type

check_ahead(inp, ln, pos, token_type, count) ==
    has_ahead(inp, ln, pos, count) /\ look_ahead(inp, ln, pos, count).ttype = token_type

check_current_in_list(inp, ln, pos, token_types) ==
    \E t \in token_types : check_current(inp, ln, pos, t)

check_assignment_op(inp, ln, pos) == check_ahead(inp, ln, pos, "Assign", 1)

token_location(token) == Location(token.line, token.column)

\* faulty variant: the start of the last consumed token
end_location_at_token_start(token) == Location(token.line, token.column)

\* the end of the last consumed token
end_location(token) == Location(token.line, token.column + Len(token.value) - 1)

\* Identifier(value.to_string()) or Number(value.parse().unwrap())
token_to_node(token, pos) ==
    IF token.ttype = "Identifier"
    THEN Ok(Node("Identifier", token.value, Zero, <<>>, token_location(token)), pos)
    ELSE IF token.ttype = "Number"
    THEN IF ParseF64(token.value).ok
         THEN Ok(Node("Number", <<>>, ParseF64(token.value).val, <<>>, token_location(token)), pos)
         ELSE Panic(pos)
    ELSE Panic(pos)

bin_op_ntype(ttype) ==
    CASE ttype = "Plus" -> "Sum"
      [] ttype = "Minus" -> "Substraction"
      [] ttype = "Times" -> "Multiplication"
      [] ttype = "Div" -> "Division"
      [] ttype = "GreaterThan" -> "GreaterThan"
      [] ttype = "GreaterThanOrEqual" -> "GreaterThanOrEqual"
      [] ttype = "LessThan" -> "LessThan"
      [] ttype = "LessThanOrEqual" -> "LessThanOrEqual"
      [] ttype = "Equal" -> "Equal"
      [] OTHER -> "None"

\* faulty variant: the node is located where its left operand is
token_to_bin_op_node_at_left_child(token, left_child, right_child) ==
    Node(bin_op_ntype(token.ttype), <<>>, Zero, <<left_child, right_child>>,
         left_child.location)

token_to_bin_op_node(token, left_child, right_child) ==
    Node(bin_op_ntype(token.ttype), <<>>, Zero, <<left_child, right_child>>,
         token_location(token))

\* Assignment(value of the identifier node, right_child), located at the '=' token
token_to_assignment_node(token, left_child, right_child) ==
    Node("Assignment", left_child.name, Zero, <<right_child>>, token_location(token))

\* faulty variant: at the end of a line the location is one past the last token
create_unexpected_error_past_the_token(inp, ln, pos) ==
    IF has_current(inp, ln, pos)
    THEN Err(Error("UnexpectedToken", current(inp, ln, pos).value,
                   token_location(current(inp, ln, pos))), pos)
    ELSE IF last_token_panics(pos) THEN Panic(pos)
    ELSE Err(Error("UnexpectedEndOfLine", <<>>,
                   Location(last_token(inp, pos).line,
                            last_token(inp, pos).column + Len(last_token(inp, pos).value))),
             pos)

create_unexpected_error(inp, ln, pos) ==
    IF has_current(inp, ln, pos)
    THEN Err(Error("UnexpectedToken", current(inp, ln, pos).value,
                   token_location(current(inp, ln, pos))), pos)
    ELSE IF last_token_panics(pos) THEN Panic(pos)
    ELSE Err(Error("UnexpectedEndOfLine", <<>>, end_location(last_token(inp, pos))), pos)

\* faulty variant: the failing check consumes the token it found
create_close_paren_error_consuming(inp, ln, pos) ==
    IF has_current(inp, ln, pos)
    THEN Err(Error("ExpectedCloseParen", current(inp, ln, pos).value,
                   token_location(current(inp, ln, pos))), pos + 1)
    ELSE IF last_token_panics(pos) THEN Panic(pos)
    ELSE Err(Error("ExpectedCloseParen", <<"E", "O", "L">>,
                   end_location(last_token(inp, pos))), pos)

create_close_paren_error(inp, ln, pos) ==
    IF has_current(inp, ln, pos)
    THEN Err(Error("ExpectedCloseParen", current(inp, ln, pos).value,
                   token_location(current(inp, ln, pos))), pos)
    ELSE IF last_token_panics(pos) THEN Panic(pos)
    ELSE Err(Error("ExpectedCloseParen", <<"E", "O", "L">>,
                   end_location(last_token(inp, pos))), pos)

parse_number(inp, ln, pos) == token_to_node(current(inp, ln, pos), pos + 1)

parse_identifier(inp, ln, pos) == token_to_node(current(inp, ln, pos), pos + 1)

\* faulty variant: the ')' is checked with advance = false
expect_close_paren_without_advance(inp, ln, pos, node) ==
    IF check_current(inp, ln, pos, "RightParenthesis")
    THEN Ok(node, pos)
    ELSE create_close_paren_error(inp, ln, pos)

\* check_current(RightParenthesis, true): the cursor moves only on a match
expect_close_paren(inp, ln, pos, node) ==
    IF check_current(inp, ln, pos, "RightParenthesis")
    THEN Ok(node, pos + 1)
    ELSE create_close_paren_error(inp, ln, pos)

\* faulty variant: parse_term's list also holds the additive operators
MulOpsWithAdditive == {"Times", "Div", "Plus", "Minus"}

\* the lists handed to check_current_in_list
MulOps == {"Times", "Div"}

AddOps == {"Plus", "Minus"}

CompOps == {"GreaterThan", "GreaterThanOrEqual", "LessThan", "LessThanOrEqual", "Equal"}

\* Each operator below hands the result of the call it makes to a second
\* operator that continues from it, as `?`, and_then and map do in the code.
RECURSIVE parse_factor(_, _, _)
RECURSIVE parse_term(_, _, _)
RECURSIVE parse_term_loop(_, _, _, _)
RECURSIVE parse_comp_term_loop(_, _, _, _)
RECURSIVE parse_right_expr(_, _, _)

\* .and_then(|node| self.expect_close_paren(node))
and_then_close_paren(inp, ln, inner) ==
    IF inner.kind = "ok" THEN expect_close_paren(inp, ln, inner.pos, inner.node) ELSE inner

\* called with the cursor on '(' (check_open_paren has matched and advances)
parse_expr_in_parens(inp, ln, pos) ==
    and_then_close_paren(inp, ln, parse_right_expr(inp, ln, pos + 1))

parse_factor(inp, ln, pos) ==
    IF check_current(inp, ln, pos, "Number") THEN parse_number(inp, ln, pos)
    ELSE IF check_current(inp, ln, pos, "Identifier") THEN parse_identifier(inp, ln, pos)
    ELSE IF check_current(inp, ln, pos, "LeftParenthesis") THEN parse_expr_in_parens(inp, ln, pos)
    ELSE create_unexpected_error(inp, ln, pos)

\* node = new_node?: the new node replaces the tree built so far, an error returns
term_step(inp, ln, token, node, right) ==
    IF right.kind = "ok"
    THEN parse_term_loop(inp, ln, right.pos, token_to_bin_op_node(token, node, right.node))
    ELSE right

\* faulty variant: the right operand is a whole term, which associates to the right
right_operand_node(token, node, right) ==
    IF right.kind = "ok"
    THEN Ok(token_to_bin_op_node(token, node, right.node), right.pos)
    ELSE right

parse_term_loop_to_the_right(inp, ln, pos, node) ==
    IF check_current_in_list(inp, ln, pos, MulOps)
    THEN right_operand_node(current(inp, ln, pos), node, parse_term(inp, ln, pos + 1))
    ELSE Ok(node, pos)

\* one round of parse_term's loop, `node` being the tree built so far
parse_term_loop(inp, ln, pos, node) ==
    IF check_current_in_list(inp, ln, pos, MulOps)
    THEN term_step(inp, ln, current(inp, ln, pos), node, parse_factor(inp, ln, pos + 1))
    ELSE Ok(node, pos)

\* let mut node = self.parse_factor()?, then the loop
term_rest(inp, ln, first) ==
    IF first.kind = "ok" THEN parse_term_loop(inp, ln, first.pos, first.node) ELSE first

parse_term(inp, ln, pos) == term_rest(inp, ln, parse_factor(inp, ln, pos))

comp_term_step(inp, ln, token, node, right) ==
    IF right.kind = "ok"
    THEN parse_comp_term_loop(inp, ln, right.pos, token_to_bin_op_node(token, node, right.node))
    ELSE right

\* one round of parse_comp_term's loop
parse_comp_term_loop(inp, ln, pos, node) ==
    IF check_current_in_list(inp, ln, pos, AddOps)
    THEN comp_term_step(inp, ln, current(inp, ln, pos), node, parse_term(inp, ln, pos + 1))
    ELSE Ok(node, pos)

comp_term_rest(inp, ln, first) ==
    IF first.kind = "ok" THEN parse_comp_term_loop(inp, ln, first.pos, first.node) ELSE first

parse_comp_term(inp, ln, pos) == comp_term_rest(inp, ln, parse_term(inp, ln, pos))

\* self.parse_comp_term().map(|right_child| token_to_bin_op_node(token, left, right_child))
comparison_node(token, node, right) ==
    IF right.kind = "ok"
    THEN Ok(token_to_bin_op_node(token, node, right.node), right.pos)
    ELSE right

RECURSIVE parse_comparison_in_a_loop(_, _, _)
\* faulty variant: comparisons are looped over as the additive operators are
parse_comparison_in_a_loop(inp, ln, left) ==
    IF left.kind # "ok" THEN left
    ELSE IF check_current_in_list(inp, ln, left.pos, CompOps)
    THEN parse_comparison_in_a_loop(inp, ln,
             comparison_node(current(inp, ln, left.pos), left.node,
                             parse_comp_term(inp, ln, left.pos + 1)))
    ELSE left

\* the comparison of parse_right_expr, `left` being the result for the left operand
parse_comparison(inp, ln, left) ==
    IF left.kind # "ok" THEN left
    ELSE IF check_current_in_list(inp, ln, left.pos, CompOps)
    THEN comparison_node(current(inp, ln, left.pos), left.node,
                         parse_comp_term(inp, ln, left.pos + 1))
    ELSE left

parse_right_expr(inp, ln, pos) == parse_comparison(inp, ln, parse_comp_term(inp, ln, pos))

\* faulty variant: the look-ahead sees '=' and does not ask for an identifier before it
is_assignment_after_any_token(inp, ln, pos) ==
    has_current(inp, ln, pos) /\ check_assignment_op(inp, ln, pos)

\* the look-ahead of parse_expr: an identifier followed by '='
is_assignment(inp, ln, pos) ==
    check_current(inp, ln, pos, "Identifier") /\ check_assignment_op(inp, ln, pos)

\* faulty variant: the empty Root stays in the Assignment node
assignment_result_keeping_placeholder(shell, right_expr) ==
    IF right_expr.kind = "ok" THEN Ok(shell, right_expr.pos) ELSE right_expr

\* the Assignment node with the parsed right-hand side in place of the empty Root
assignment_result(shell, right_expr) ==
    IF right_expr.kind = "ok"
    THEN Ok(Node("Assignment", shell.name, Zero, <<right_expr.node>>, shell.location),
            right_expr.pos)
    ELSE right_expr

parse_expr(inp, ln, pos) ==
    IF is_assignment(inp, ln, pos)
    THEN assignment_result(
             token_to_assignment_node(look_ahead(inp, ln, pos, 1),
                 parse_identifier(inp, ln, pos).node, empty_root),
             parse_right_expr(inp, ln, pos + 2))
    ELSE parse_right_expr(inp, ln, pos)

RECURSIVE move_to_next_line(_, _, _)
\* skip tokens until one stands on line ln (the counter already incremented)
move_to_next_line(inp, ln, pos) ==
    IF pos + 1 <= Len(inp) /\ inp[pos + 1].line # ln
    THEN move_to_next_line(inp, ln, pos + 1)
    ELSE pos

\* faulty variant: tokens left on the line are not looked at
check_end_of_line_not_checked(inp, ln, res) == res

\* the check after parse_expr: the line must have been consumed to its end
check_end_of_line(inp, ln, res) ==
    IF res.kind = "ok" /\ has_current(inp, ln, res.pos)
    THEN create_unexpected_error(inp, ln, res.pos)
    ELSE res

\* .map_err: the line counter is incremented, then the rest of the line skipped
resynchronize(inp, ln, res) ==
    IF res.kind = "err" THEN Err(res.err, move_to_next_line(inp, ln + 1, res.pos)) ELSE res

\* the ParseResult of parse_line, its pos the cursor parse_line leaves
parse_line(inp, ln, pos) ==
    resynchronize(inp, ln, check_end_of_line(inp, ln, parse_expr(inp, ln, pos)))

\* faulty variant: a line's node is put in front of the nodes gathered so far
fold_step_in_front(acc, r) ==
    IF acc.kind = "ok" /\ acc.node.ntype = "Root" /\ r.kind = "ok"
    THEN Ok(Node("Root", <<>>, Zero, <<r.node>> \o acc.node.kids, acc.node.location), 0)
    ELSE IF acc.kind = "ok" /\ r.kind = "err"
    THEN Err(MultipleErrors(<<r.err>>), 0)
    ELSE IF acc.kind = "err" /\ r.kind = "ok"
    THEN acc
    ELSE IF acc.kind = "err" /\ acc.err.etype = "MultipleErrors" /\ r.kind = "err"
    THEN Err(MultipleErrors(Append(acc.err.errors, r.err)), 0)
    ELSE Panic(0)

\* one step of the fold of parse: the accumulated result and one line's result
fold_step(acc, r) ==
    IF acc.kind = "ok" /\ acc.node.ntype = "Root" /\ r.kind = "ok"
    THEN Ok(Node("Root", <<>>, Zero, Append(acc.node.kids, r.node), acc.node.location), 0)
    ELSE IF acc.kind = "ok" /\ r.kind = "err"
    THEN Err(MultipleErrors(<<r.err>>), 0)
    ELSE IF acc.kind = "err" /\ r.kind = "ok"
    THEN acc
    ELSE IF acc.kind = "err" /\ acc.err.etype = "MultipleErrors" /\ r.kind = "err"
    THEN Err(MultipleErrors(Append(acc.err.errors, r.err)), 0)
    ELSE Panic(0)

RECURSIVE fold_results(_, _)
\* results.into_iter().fold(acc, ...): a panic in a step ends the fold
fold_results(acc, rs) ==
    IF rs = <<>> \/ acc.kind = "panic" THEN acc
    ELSE fold_results(fold_step(acc, Head(rs)), Tail(rs))

(***************************************************************************)
(* The evaluator (EvalContext { syms }).                                   *)
(***************************************************************************)
NaN == [n |-> 0, d |-> 0]

IsNaN(a) == a.d = 0 /\ a.n = 0

Add(a, b) ==
    IF a.d = 0 /\ b.d = 0 THEN (IF a = b THEN a ELSE NaN)
    ELSE Rat(a.n * b.d + b.n * a.d, a.d * b.d)

Neg(a) == [n |-> 0 - a.n, d |-> a.d]

Sub(a, b) == Add(a, Neg(b))

Mul(a, b) == Rat(a.n * b.n, a.d * b.d)

Div(a, b) ==
    LET sb == IF b.n < 0 THEN 0 - 1 ELSE 1
    IN  Rat(sb * a.n * b.d, sb * a.d * b.n)

Gt(a, b) == ~IsNaN(a) /\ ~IsNaN(b) /\ a.n * b.d > b.n * a.d

Ge(a, b) == ~IsNaN(a) /\ ~IsNaN(b) /\ a.n * b.d >= b.n * a.d

\* std::f64::EPSILON is 2^-52
EPSILON_BITS == 52

RECURSIVE CeilShift(_, _)
\* the least integer not below d / 2^k
CeilShift(d, k) == IF k = 0 THEN d ELSE CeilShift((d + 1) \div 2, k - 1)

\* (l - r).abs() < EPSILON
EqEpsilon(l, r) ==
    LET diff == Sub(l, r)
    IN  diff.d # 0 /\ Abs(diff.n) < CeilShift(diff.d, EPSILON_BITS)

PIName == <<"P", "I">>

\* std::f64::consts::PI, to the precision the model's integers carry
PIValue == Rat(355, 113)

\* EvalContext::new
new_context == [x \in {} |-> Zero]

insert(table, name, val) ==
    [x \in DOMAIN table \cup {name} |-> IF x = name THEN val ELSE table[x]]

populate_symbol_table(table) == insert(table, PIName, PIValue)

\* EvalContext::populated
populated == populate_symbol_table(new_context)

EvalOk(val, table) == [kind |-> "ok", val |-> val, err |-> NoError, syms |-> table]

EvalErr(err, table) == [kind |-> "err", val |-> Zero, err |-> err, syms |-> table]

EvalPanic(table) == [kind |-> "panic", val |-> Zero, err |-> NoError, syms |-> table]

Bool(b) == IF b THEN Rat(1, 1) ELSE Zero

\* the closure each binary node hands to perform_arithmetic_op / perform_comparison_op
apply_op(ntype, l, r) ==
    CASE ntype = "Sum" -> Add(l, r)
      [] ntype = "Substraction" -> Sub(l, r)
      [] ntype = "Multiplication" -> Mul(l, r)
      [] ntype = "Division" -> Div(l, r)
      [] ntype = "GreaterThan" -> Bool(Gt(l, r))
      [] ntype = "GreaterThanOrEqual" -> Bool(Ge(l, r))
      [] ntype = "LessThan" -> Bool(Gt(r, l))
      [] ntype = "LessThanOrEqual" -> Bool(Ge(r, l))
      [] ntype = "Equal" -> Bool(EqEpsilon(l, r))

BinaryTypes ==
    {"Sum", "Substraction", "Multiplication", "Division", "GreaterThan",
     "GreaterThanOrEqual", "LessThan", "LessThanOrEqual", "Equal"}

RECURSIVE eval(_, _)
RECURSIVE eval_nodes(_, _, _)

\* res = Some(self.eval(node)?)
eval_nodes_step(nodes, r) ==
    IF r.kind = "ok" THEN eval_nodes(Tail(nodes), r.syms, <<r.val>>) ELSE r

\* the loop of eval's Root arm: `last` is res, a sequence of at most one value;
\* res.unwrap() panics when no statement was evaluated
eval_nodes(nodes, table, last) ==
    IF nodes = <<>>
    THEN (IF last = <<>> THEN EvalPanic(table) ELSE EvalOk(last[1], table))
    ELSE eval_nodes_step(nodes, eval(Head(nodes), table))

\* Ok(op(left_res, right_res))
perform_op_result(ntype, left_res, right_res) ==
    IF right_res.kind # "ok" THEN right_res
    ELSE EvalOk(apply_op(ntype, left_res.val, right_res.val), right_res.syms)

\* let right_res = self.eval(&right_child)?, after the left child succeeded
perform_op_right(node, left_res) ==
    IF left_res.kind # "ok" THEN left_res
    ELSE perform_op_result(node.ntype, left_res, eval(node.kids[2], left_res.syms))

\* faulty variant: the right child is evaluated before the left child
perform_op_right_first(node, table) ==
    IF eval(node.kids[2], table).kind # "ok" THEN eval(node.kids[2], table)
    ELSE perform_op_right(node, eval(node.kids[1], table))

\* left child, then right child (perform_arithmetic_op, perform_comparison_op)
perform_op(node, table) == perform_op_right(node, eval(node.kids[1], table))

\* faulty variant: the name is bound to 0.0 when its value fails
assign_binding_on_failure(name, val) ==
    IF val.kind = "ok" THEN EvalOk(val.val, insert(val.syms, name, val.val))
    ELSE EvalErr(val.err, insert(val.syms, name, Zero))

\* faulty variant: the value is returned and the table left as it was
assign_without_insert(name, val) ==
    IF val.kind = "ok" THEN EvalOk(val.val, val.syms) ELSE val

\* self.syms.insert(identifier.clone(), val); Ok(val)
assign(name, val) ==
    IF val.kind = "ok" THEN EvalOk(val.val, insert(val.syms, name, val.val)) ELSE val

\* faulty variant: an identifier that is not bound evaluates to 0.0
eval_with_default(node, table) ==
    CASE node.ntype = "Root" -> eval_nodes(node.kids, table, <<>>)
      [] node.ntype = "Number" -> EvalOk(node.num, table)
      [] node.ntype \in BinaryTypes -> perform_op(node, table)
      [] node.ntype = "Assignment" -> assign(node.name, eval(node.kids[1], table))
      [] node.ntype = "Identifier" ->
            IF node.name \in DOMAIN table THEN EvalOk(table[node.name], table)
            ELSE EvalOk(Zero, table)

eval(node, table) ==
    CASE node.ntype = "Root" -> eval_nodes(node.kids, table, <<>>)
      [] node.ntype = "Number" -> EvalOk(node.num, table)
      [] node.ntype \in BinaryTypes -> perform_op(node, table)
      [] node.ntype = "Assignment" -> assign(node.name, eval(node.kids[1], table))
      [] node.ntype = "Identifier" ->
            IF node.name \in DOMAIN table THEN EvalOk(table[node.name], table)
            ELSE EvalErr(Error("SymbolNotFound", node.name, node.location), table)

RECURSIVE print_nodes(_, _, _)

\* let res = ctx.eval(node)?; println!("{}", res)
print_nodes_step(nodes, out, r) ==
    IF r.kind = "ok" THEN print_nodes(Tail(nodes), r.syms, Append(out, r.val))
    ELSE [res |-> r, out |-> out]

\* the loop of eval_and_print: `out` is what println! has written
print_nodes(nodes, table, out) ==
    IF nodes = <<>> THEN [res |-> EvalOk(Zero, table), out |-> out]
    ELSE print_nodes_step(nodes, out, eval(Head(nodes), table))

\* eval_and_print: a non-Root argument panics
eval_and_print(root) ==
    IF root.ntype # "Root" THEN [res |-> EvalPanic(populated), out |-> <<>>]
    ELSE print_nodes(root.kids, populated, <<>>)

(***************************************************************************)
(* The state machine: Parser::new, parse (its loop one parse_line at a     *)
(* time, then its fold), and the evaluation of the tree parse returns.     *)
(***************************************************************************)
NotRun == [kind |-> "none", node |-> NoNode, err |-> NoError, pos |-> 0]

NotEvaluated == [kind |-> "none", val |-> Zero, err |-> NoError, syms |-> new_context]

Init ==
    /\ IsInput(input)
    /\ position = 0
    /\ line = 0
    /\ results = <<>>
    /\ calls = <<>>
    /\ pc = "start"
    /\ parsed = NotRun
    /\ syms = new_context
    /\ evaluated = NotEvaluated
    /\ printed = <<>>

\* parse, up to its loop: empty input returns Ok(empty_root) at once
ParseStart ==
    /\ pc = "start"
    /\ IF Len(input) = 0
       THEN parsed' = Ok(empty_root, 0) /\ pc' = "parsed"
       ELSE parsed' = parsed /\ pc' = "loop"
    /\ UNCHANGED <<input, position, line, results, calls, syms, evaluated, printed>>

\* results.push(result) and the test that ends the loop; a panic unwinds
PushResult(result) ==
    IF result.kind = "panic"
    THEN /\ pc' = "panic"
         /\ UNCHANGED <<position, line, results, calls>>
    ELSE /\ position' = result.pos
         /\ line' = line + 1
         /\ results' = Append(results, result)
         /\ calls' = Append(calls, [ln |-> line, start |-> position, res |-> result])
         /\ pc' = IF result.pos >= Len(input) THEN "fold" ELSE "loop"

\* one round of parse's loop: parse_line, push, and the test that ends the loop
ParseLoop ==
    /\ pc = "loop"
    /\ PushResult(parse_line(input, line, position))
    /\ UNCHANGED <<input, parsed, syms, evaluated, printed>>

Returned(result) ==
    /\ parsed' = result
    /\ pc' = IF result.kind = "panic" THEN "panic" ELSE "parsed"

\* the fold of the per-line results that parse returns
ParseFold ==
    /\ pc = "fold"
    /\ Returned(fold_results(Ok(empty_root, 0), results))
    /\ UNCHANGED <<input, position, line, results, calls, syms, evaluated, printed>>

Evaluated(result) ==
    /\ evaluated' = result
    /\ syms' = result.syms

\* EvalContext::populated().eval(&root) on the tree of a successful parse
EvalRoot ==
    /\ pc = "parsed"
    /\ parsed.kind = "ok"
    /\ Evaluated(eval(parsed.node, populated))
    /\ pc' = "evaluated"
    /\ UNCHANGED <<input, position, line, results, calls, parsed, printed>>

\* EvalContext::new().eval(&root): the context the public constructor gives
EvalNew ==
    /\ pc = "parsed"
    /\ parsed.kind = "ok"
    /\ Evaluated(eval(parsed.node, new_context))
    /\ pc' = "evaluated_new"
    /\ UNCHANGED <<input, position, line, results, calls, parsed, printed>>

Printed(run) ==
    /\ evaluated' = run.res
    /\ printed' = run.out
    /\ syms' = run.res.syms

\* EvalContext::eval_and_print(&root) on the tree of a successful parse
EvalAndPrint ==
    /\ pc = "parsed"
    /\ parsed.kind = "ok"
    /\ Printed(eval_and_print(parsed.node))
    /\ pc' = "printed"
    /\ UNCHANGED <<input, position, line, results, calls, parsed>>

Next == ParseStart \/ ParseLoop \/ ParseFold \/ EvalRoot \/ EvalNew \/ EvalAndPrint

Spec == Init /\ [][Next]_vars

(***************************************************************************)
(* The lines of an input, and each line parsed on its own: the reference   *)
(* the per-line properties are stated against.                             *)
(***************************************************************************)
LinesOf(inp) == {inp[i].line : i \in 1..Len(inp)}

LineTokens(inp, n) == SelectSeq(inp, LAMBDA t : t.line = n)

\* the result for line n when nothing but line n is given to the parser
Alone(inp, n) == parse_line(LineTokens(inp, n), n, 0)

RECURSIVE SortSet(_)
SortSet(S) ==
    IF S = {} THEN <<>>
    ELSE LET m == CHOOSE x \in S : \A y \in S : x <= y
         IN  <<m>> \o SortSet(S \ {m})

FailingLines(inp) == {n \in LinesOf(inp) : Alone(inp, n).kind = "err"}

ErrorsOf(inp, ns) == [i \in 1..Len(ns) |-> Alone(inp, ns[i]).err]

TreesOf(inp, ns) == [i \in 1..Len(ns) |-> Alone(inp, ns[i]).node]

\* the number of tokens on lines up to n: the index of the first token after line n
FirstAfterLine(inp, n) == Len(SelectSeq(inp, LAMBDA t : t.line <= n))

AllOk(rs) == \A i \in 1..Len(rs) : rs[i].kind = "ok"

\* the lines are 0, 1, ..., with no blank line before or between them
NoBlankLines(inp) == LinesOf(inp) = 0..(Cardinality(LinesOf(inp)) - 1)

(***************************************************************************)
(* C1: when a line fails, parse returns MultipleErrors holding exactly the *)
(* error of each failing line, in line order, whatever blank lines lie     *)
(* between the lines.                                                      *)
(***************************************************************************)
C1_EveryFailingLineReported ==
    (pc = "parsed" /\ FailingLines(input) # {}) =>
        /\ parsed.kind = "err"
        /\ parsed.err = MultipleErrors(ErrorsOf(input, SortSet(FailingLines(input))))

C3_ParseNeverPanics == pc # "panic"

(***************************************************************************)
(* C4: evaluating the Root of empty input is no error and no panic, and    *)
(* yields no results, through eval and through eval_and_print.             *)
(***************************************************************************)
C4_EmptyRootEvaluates ==
    (Len(input) = 0 /\ pc \in {"evaluated", "printed"}) =>
        evaluated.kind = "ok" /\ printed = <<>>

(***************************************************************************)
(* C5: after parse_line fails on line n the cursor stands on the first     *)
(* token of a line after n, or at the end of the input.                    *)
(***************************************************************************)
C5_CursorAfterFailedLine ==
    \A i \in 1..Len(calls) :
        calls[i].res.kind = "err" =>
            calls[i].res.pos = FirstAfterLine(input, calls[i].ln)

(***************************************************************************)
(* Trees and token sequences: what the properties of one line speak of.    *)
(***************************************************************************)
MulTypes == {"Multiplication", "Division"}

AddTypes == {"Sum", "Substraction"}

CompTypes == {"GreaterThan", "GreaterThanOrEqual", "LessThan", "LessThanOrEqual", "Equal"}

RECURSIVE SubNodes(_)
\* a node and everything below it
SubNodes(node) == {node} \cup UNION {SubNodes(node.kids[i]) : i \in 1..Len(node.kids)}

HasParens(toks) ==
    \E i \in 1..Len(toks) : toks[i].ttype \in {"LeftParenthesis", "RightParenthesis"}

TypesOf(toks) == [i \in 1..Len(toks) |-> toks[i].ttype]

\* the parentheses open before token k, counted from token i
DepthIn(toks, i, k) ==
    Cardinality({j \in i..(k - 1) : toks[j].ttype = "LeftParenthesis"})
    - Cardinality({j \in i..(k - 1) : toks[j].ttype = "RightParenthesis"})

Depth(toks, k) == DepthIn(toks, 1, k)

\* the operators of `ops` in toks[i..j] that no parenthesis of toks[i..j] encloses
TopOps(toks, i, j, ops) ==
    {k \in i..j : toks[k].ttype \in ops /\ DepthIn(toks, i, k) = 0}

Last(S) == CHOOSE x \in S : \A y \in S : y <= x

\* the token of a line that a node's location names
TokIndex(toks, location) == CHOOSE k \in 1..Len(toks) : token_location(toks[k]) = location

RECURSIVE RefTree(_, _, _)
RECURSIVE SplitAt(_, _, _, _)

SplitAt(toks, i, j, k) ==
    token_to_bin_op_node(toks[k], RefTree(toks, i, k - 1), RefTree(toks, k + 1, j))

\* the tree the grammar gives toks[i..j], a well-formed rightExpr: the loosest
\* operator outside parentheses is the root, the last one among equals
\* (left-associativity), so that its right operand holds none of its level
RefTree(toks, i, j) ==
    IF TopOps(toks, i, j, CompOps) # {} THEN SplitAt(toks, i, j, Last(TopOps(toks, i, j, CompOps)))
    ELSE IF TopOps(toks, i, j, AddOps) # {} THEN SplitAt(toks, i, j, Last(TopOps(toks, i, j, AddOps)))
    ELSE IF TopOps(toks, i, j, MulOps) # {} THEN SplitAt(toks, i, j, Last(TopOps(toks, i, j, MulOps)))
    ELSE IF toks[i].ttype = "LeftParenthesis" THEN RefTree(toks, i + 1, j - 1)
    ELSE token_to_node(toks[i], 0).node

\* the tree the grammar gives a well-formed line
RefLine(toks) ==
    IF Len(toks) >= 2 /\ toks[1].ttype = "Identifier" /\ toks[2].ttype = "Assign"
    THEN Node("Assignment", toks[1].value, Zero, <<RefTree(toks, 3, Len(toks))>>,
              token_location(toks[2]))
    ELSE RefTree(toks, 1, Len(toks))

OkCalls == {i \in 1..Len(calls) : calls[i].res.kind = "ok"}

CallTokens(i) == LineTokens(input, calls[i].ln)

(***************************************************************************)
(* C6: in a parsed line without parentheses no Sum or Substraction is a    *)
(* child of a Multiplication or Division and no comparison is a child of   *)
(* an arithmetic node; x + y * z is Sum(x, Multiplication(y, z)) and       *)
(* x < y + z is LessThan(x, Sum(y, z)).                                    *)
(***************************************************************************)
PrecedenceKept(node) ==
    \A n \in SubNodes(node) : \A k \in 1..Len(n.kids) :
        /\ n.ntype \in MulTypes => n.kids[k].ntype \notin AddTypes \cup CompTypes
        /\ n.ntype \in AddTypes => n.kids[k].ntype \notin CompTypes

IsSumOfProduct(toks) ==
    Len(toks) = 5 /\ toks[2].ttype = "Plus" /\ toks[4].ttype = "Times"

IsLessThanSum(toks) ==
    Len(toks) = 5 /\ toks[2].ttype = "LessThan" /\ toks[4].ttype = "Plus"

C6_PrecedenceWithoutParens ==
    \A i \in OkCalls :
        ~HasParens(CallTokens(i)) =>
            /\ PrecedenceKept(calls[i].res.node)
            /\ IsSumOfProduct(CallTokens(i)) =>
                  /\ calls[i].res.node.ntype = "Sum"
                  /\ calls[i].res.node.kids[1].ntype = "Identifier"
                  /\ calls[i].res.node.kids[2].ntype = "Multiplication"
            /\ IsLessThanSum(CallTokens(i)) =>
                  /\ calls[i].res.node.ntype = "LessThan"
                  /\ calls[i].res.node.kids[1].ntype = "Identifier"
                  /\ calls[i].res.node.kids[2].ntype = "Sum"

C6_Witness ==
    \E i \in OkCalls : ~HasParens(CallTokens(i)) /\ IsSumOfProduct(CallTokens(i))

(***************************************************************************)
(* C7: operators of one level associate to the left: every parsed line is  *)
(* the tree whose root is the last loosest operator outside parentheses,   *)
(* so the right operand of a '*' or '/' is one factor and the right        *)
(* operand of a '+' or '-' is one term.                                    *)
(***************************************************************************)
C7_LeftAssociative ==
    \A i \in OkCalls : calls[i].res.node = RefLine(CallTokens(i))

C7_Witness ==
    \E i \in OkCalls :
        /\ calls[i].res.node.ntype = "Multiplication"
        /\ calls[i].res.node.kids[1].ntype = "Multiplication"
        /\ calls[i].res.node.kids[2].ntype = "Identifier"

(***************************************************************************)
(* C8: comparisons do not chain: a line with two comparison operators in   *)
(* one parenthesis group (or both outside parentheses) never parses, and   *)
(* in a parsed tree a comparison below a comparison comes from a           *)
(* parenthesized operand.                                                  *)
(***************************************************************************)
\* tokens a and b stand in the same group: nothing between them closes it
SameGroup(toks, a, b) ==
    /\ Depth(toks, a) = Depth(toks, b)
    /\ \A k \in a..b : Depth(toks, k) >= Depth(toks, a)

ChainsComparisons(toks) ==
    \E a, b \in 1..Len(toks) :
        /\ a < b
        /\ toks[a].ttype \in CompOps
        /\ toks[b].ttype \in CompOps
        /\ SameGroup(toks, a, b)

OperandsParenthesized(toks, node) ==
    \A n \in SubNodes(node) : \A k \in 1..Len(n.kids) :
        (n.ntype \in CompTypes /\ n.kids[k].ntype \in CompTypes) =>
            Depth(toks, TokIndex(toks, n.kids[k].location)) > Depth(toks, TokIndex(toks, n.location))

C8_ComparisonsDoNotChain ==
    \A i \in 1..Len(calls) :
        /\ ChainsComparisons(CallTokens(i)) => calls[i].res.kind = "err"
        /\ calls[i].res.kind = "ok" => OperandsParenthesized(CallTokens(i), calls[i].res.node)

C8_Witness ==
    /\ \E i \in 1..Len(calls) :
          /\ TypesOf(CallTokens(i)) = <<"Number", "LessThan", "Number", "LessThan", "Number">>
          /\ calls[i].res.kind = "err"
          /\ calls[i].res.err.etype = "UnexpectedToken"

\* a comparison whose operand is a parenthesized comparison does parse
C8_WitnessNested ==
    \E i \in OkCalls :
        /\ calls[i].res.node.ntype = "LessThan"
        /\ calls[i].res.node.kids[1].ntype = "LessThan"

(***************************************************************************)
(* C9: a line is parsed as an Assignment exactly when its first token is   *)
(* an Identifier and its second token is '='; the node carries the         *)
(* identifier's name, the tree of the rightExpr after '=' and the location *)
(* of '='.  An '=' anywhere else makes the line fail.                      *)
(***************************************************************************)
StartsAssignment(toks) ==
    Len(toks) >= 2 /\ toks[1].ttype = "Identifier" /\ toks[2].ttype = "Assign"

\* an '=' that is not the second token after a leading identifier
HasStrayAssign(toks) ==
    \E k \in 1..Len(toks) :
        toks[k].ttype = "Assign" /\ ~(k = 2 /\ StartsAssignment(toks))

C9_AssignmentByLookahead ==
    \A i \in 1..Len(calls) :
        /\ HasStrayAssign(CallTokens(i)) => calls[i].res.kind = "err"
        /\ calls[i].res.kind = "ok" =>
              /\ calls[i].res.node.ntype = "Assignment" <=> StartsAssignment(CallTokens(i))
              /\ StartsAssignment(CallTokens(i)) =>
                    /\ calls[i].res.node.name = CallTokens(i)[1].value
                    /\ calls[i].res.node.location = token_location(CallTokens(i)[2])
                    /\ calls[i].res.node.kids =
                          <<parse_right_expr(input, calls[i].ln, calls[i].start + 2).node>>
                    /\ \A n \in SubNodes(calls[i].res.node.kids[1]) :
                          n.ntype \notin {"Assignment", "Root"}
        /\ (StartsAssignment(CallTokens(i)) /\ calls[i].res.kind = "err") =>
              \/ parse_right_expr(input, calls[i].ln, calls[i].start + 2).kind = "err"
              \/ has_current(input, calls[i].ln,
                             parse_right_expr(input, calls[i].ln, calls[i].start + 2).pos)

C9_Witness ==
    \E i \in OkCalls :
        /\ calls[i].res.node.ntype = "Assignment"
        /\ calls[i].res.node.kids[1].ntype = "Sum"

(***************************************************************************)
(* C10: a factor wrapped in k >= 1 balanced pairs of parentheses parses to *)
(* the node of the factor itself, with the factor token's location,        *)
(* consumes all 2k+1 tokens and evaluates to what the bare factor          *)
(* evaluates to.                                                           *)
(***************************************************************************)
\* toks is k '(' then a number or identifier then k ')'
IsWrappedFactor(toks, k) ==
    /\ k >= 1
    /\ Len(toks) = 2 * k + 1
    /\ \A j \in 1..k : toks[j].ttype = "LeftParenthesis"
    /\ toks[k + 1].ttype \in {"Number", "Identifier"}
    /\ \A j \in (k + 2)..(2 * k + 1) : toks[j].ttype = "RightParenthesis"

BareTree(token) == Node("Root", <<>>, Zero, <<token_to_node(token, 0).node>>, Location(0, 0))

C10_ParenthesesTransparent ==
    \A i \in 1..Len(calls) : \A k \in 1..Len(input) :
        IsWrappedFactor(CallTokens(i), k) =>
            /\ calls[i].res.kind = "ok"
            /\ calls[i].res.node = token_to_node(CallTokens(i)[k + 1], 0).node
            /\ calls[i].res.pos = calls[i].start + 2 * k + 1
            /\ (pc = "evaluated" /\ Len(calls) = 1) =>
                  /\ evaluated.kind = eval(BareTree(CallTokens(i)[k + 1]), populated).kind
                  /\ evaluated.val = eval(BareTree(CallTokens(i)[k + 1]), populated).val
                  /\ evaluated.err = eval(BareTree(CallTokens(i)[k + 1]), populated).err

C10_Witness ==
    /\ pc = "evaluated"
    /\ Len(calls) = 1
    /\ IsWrappedFactor(CallTokens(1), 3)
    /\ evaluated.kind = "ok"
    /\ evaluated.val = Rat(3, 1)

(***************************************************************************)
(* What one parse_line call met: the tokens of its line and the result     *)
(* before the cursor is moved to the next line.                            *)
(***************************************************************************)
LastOf(toks) == toks[Len(toks)]

ButLast(toks) == SubSeq(toks, 1, Len(toks) - 1)

\* the result of call i before .map_err moves the cursor
BeforeResync(i) ==
    check_end_of_line(input, calls[i].ln, parse_expr(input, calls[i].ln, calls[i].start))

\* call i failed with the cursor at the end of its line
FailedAtEndOfLine(i) ==
    /\ calls[i].res.kind = "err"
    /\ CallTokens(i) # <<>>
    /\ BeforeResync(i).pos = calls[i].start + Len(CallTokens(i))

\* a complete expression followed by a binary operator it can take:
\* a comparison operator only when no comparison stands outside parentheses
EndsAfterOperator(toks, ln) ==
    /\ Len(toks) >= 2
    /\ parse_line(ButLast(toks), ln, 0).kind = "ok"
    /\ \/ LastOf(toks).ttype \in MulOps \cup AddOps
       \/ /\ LastOf(toks).ttype \in CompOps
          /\ TopOps(toks, 1, Len(toks) - 1, CompOps) = {}

EndsAfterAssign(toks) == StartsAssignment(toks) /\ Len(toks) = 2

\* nothing but opening parentheses
EndsAfterOpenParens(toks) ==
    Len(toks) >= 1 /\ \A k \in 1..Len(toks) : toks[k].ttype = "LeftParenthesis"

RequiresFactorAtEnd(toks, ln) ==
    EndsAfterOperator(toks, ln) \/ EndsAfterAssign(toks) \/ EndsAfterOpenParens(toks)

\* (the token's line, its column + the length of its text - 1)
EndOf(token) == <<token.line, token.column + Len(token.value) - 1>>

EndOfLineError(toks) == Error("UnexpectedEndOfLine", <<>>, EndOf(LastOf(toks)))

(***************************************************************************)
(* C11: a line that ends where a factor is required (after a binary        *)
(* operator, after the '=' of an assignment, after '(') fails with         *)
(* UnexpectedEndOfLine located at the end of the last token of the line:   *)
(* (its line, its column + the length of its text - 1).                    *)
(***************************************************************************)
C11_EndOfLineAfterOperator ==
    \A i \in 1..Len(calls) :
        /\ RequiresFactorAtEnd(CallTokens(i), calls[i].ln) =>
              /\ calls[i].res.kind = "err"
              /\ calls[i].res.err = EndOfLineError(CallTokens(i))
        /\ (/\ FailedAtEndOfLine(i)
            /\ LastOf(CallTokens(i)).ttype \in
                   MulOps \cup AddOps \cup CompOps \cup {"Assign", "LeftParenthesis"}) =>
              calls[i].res.err = EndOfLineError(CallTokens(i))
        /\ (calls[i].res.kind = "err" /\ CallTokens(i) # <<>>
                /\ calls[i].res.err.etype = "UnexpectedEndOfLine") =>
              /\ calls[i].res.err = EndOfLineError(CallTokens(i))
              /\ LastOf(CallTokens(i)).ttype \in
                     MulOps \cup AddOps \cup CompOps \cup {"Assign", "LeftParenthesis"}

\* 3 >= on line 0: the error is at column 3, the second character of >=
C11_Witness ==
    \E i \in 1..Len(calls) :
        /\ TypesOf(CallTokens(i)) = <<"Number", "GreaterThanOrEqual">>
        /\ calls[i].ln = 0
        /\ calls[i].res.kind = "err"
        /\ calls[i].res.err = Error("UnexpectedEndOfLine", <<>>, Location(0, 3))

(***************************************************************************)
(* C12: the single line `hello =`, and any single line of an identifier    *)
(* followed by '=', fails with UnexpectedEndOfLine located at the '='      *)
(* token itself, the last character of the last token consumed; parse      *)
(* returns that error alone.                                               *)
(***************************************************************************)
IsHelloAssign(inp) ==
    /\ Len(inp) = 2
    /\ inp[1].ttype = "Identifier"
    /\ inp[2].ttype = "Assign"
    /\ inp[1].line = 0
    /\ inp[2].line = 0

C12_MissingRightHandSideAtAssign ==
    (IsHelloAssign(input) /\ pc = "parsed") =>
        /\ Len(calls) = 1
        /\ calls[1].res.kind = "err"
        /\ calls[1].res.err = Error("UnexpectedEndOfLine", <<>>, token_location(input[2]))
        /\ parsed = Err(MultipleErrors(<<calls[1].res.err>>), 0)
        /\ input[1] = get_tokens(<<IdHello>>, <<0>>)[1] =>
              calls[1].res.err.location = Location(0, 6)

C12_Witness ==
    /\ IsHelloAssign(input)
    /\ input[1].value = IdHello.value
    /\ pc = "parsed"
    /\ parsed = Err(MultipleErrors(<<Error("UnexpectedEndOfLine", <<>>, Location(0, 6))>>), 0)

\* C12 as the specification words it: the location is the position after '='
C12_LocationAfterAssign ==
    (IsHelloAssign(input) /\ pc = "parsed") =>
        /\ parsed.kind = "err"
        /\ parsed.err.errors =
              <<Error("UnexpectedEndOfLine", <<>>,
                      Location(input[2].line, input[2].column + Len(input[2].value)))>>

(***************************************************************************)
(* C13: when the inner expression of a parenthesized group has been parsed *)
(* and no ')' follows it, the line fails with ExpectedCloseParen: with the *)
(* text and location of the token found there, or with "EOL" and the end   *)
(* of the last token when the line has ended; the cursor is left on the    *)
(* token found (at the end of the line when there is none).                *)
(***************************************************************************)
EOLText == <<"E", "O", "L">>

\* the error for a missing ')' when the cursor of the line stands at index k of toks
CloseParenError(toks, k) ==
    IF k <= Len(toks)
    THEN Error("ExpectedCloseParen", toks[k].value, <<toks[k].line, toks[k].column>>)
    ELSE Error("ExpectedCloseParen", EOLText, EndOf(LastOf(toks)))

\* the index in its line of the token the cursor of call i was left on
CursorIn(i) == BeforeResync(i).pos - calls[i].start + 1

\* the last '(' before index k that is still open there
OpenBefore(toks, k) ==
    Last({j \in 1..(k - 1) : toks[j].ttype = "LeftParenthesis" /\ DepthIn(toks, j, k) > 0})

\* the line is '(' and then a complete expression that goes to the end of the line
IsOpenThenExpr(toks, ln) ==
    /\ Len(toks) >= 2
    /\ toks[1].ttype = "LeftParenthesis"
    /\ ~StartsAssignment(Tail(toks))
    /\ parse_line(Tail(toks), ln, 0).kind = "ok"

\* the line is '(', a complete expression, and then a token that is neither
\* an operator nor ')'
IsOpenThenExprThenToken(toks, ln) ==
    /\ Len(toks) >= 3
    /\ IsOpenThenExpr(ButLast(toks), ln)
    /\ LastOf(toks).ttype \in {"Number", "Identifier", "Assign", "LeftParenthesis"}

C13_UnclosedParenthesis ==
    \A i \in 1..Len(calls) :
        /\ (calls[i].res.kind = "err" /\ calls[i].res.err.etype = "ExpectedCloseParen") =>
              /\ CursorIn(i) \in 2..(Len(CallTokens(i)) + 1)
              /\ calls[i].res.err = CloseParenError(CallTokens(i), CursorIn(i))
              /\ CursorIn(i) <= Len(CallTokens(i)) =>
                    CallTokens(i)[CursorIn(i)].ttype # "RightParenthesis"
              /\ Depth(CallTokens(i), CursorIn(i)) > 0
              /\ parse_right_expr(input, calls[i].ln,
                     calls[i].start + OpenBefore(CallTokens(i), CursorIn(i))) =
                 Ok(RefTree(CallTokens(i), OpenBefore(CallTokens(i), CursorIn(i)) + 1,
                            CursorIn(i) - 1),
                    BeforeResync(i).pos)
        /\ (/\ CallTokens(i) # <<>>
            /\ CallTokens(i)[1].ttype = "LeftParenthesis"
            /\ parse_right_expr(input, calls[i].ln, calls[i].start + 1).kind = "ok"
            /\ ~check_current(input, calls[i].ln,
                   parse_right_expr(input, calls[i].ln, calls[i].start + 1).pos,
                   "RightParenthesis")) =>
              /\ calls[i].res.kind = "err"
              /\ BeforeResync(i).pos =
                     parse_right_expr(input, calls[i].ln, calls[i].start + 1).pos
              /\ calls[i].res.err = CloseParenError(CallTokens(i), CursorIn(i))
        /\ IsOpenThenExpr(CallTokens(i), calls[i].ln) =>
              /\ calls[i].res.kind = "err"
              /\ calls[i].res.err = CloseParenError(CallTokens(i), Len(CallTokens(i)) + 1)
              /\ CursorIn(i) = Len(CallTokens(i)) + 1
        /\ IsOpenThenExprThenToken(CallTokens(i), calls[i].ln) =>
              /\ calls[i].res.kind = "err"
              /\ calls[i].res.err = CloseParenError(CallTokens(i), Len(CallTokens(i)))
              /\ CursorIn(i) = Len(CallTokens(i))

\* ( hi hi: the second identifier is found where ')' is expected
C13_Witness ==
    \E i \in 1..Len(calls) :
        /\ TypesOf(CallTokens(i)) = <<"LeftParenthesis", "Identifier", "Identifier">>
        /\ calls[i].res.kind = "err"
        /\ calls[i].res.err = Error("ExpectedCloseParen", IdHi.value, Location(0, 5))
        /\ BeforeResync(i).pos = 2

\* ( hello: the line ends where ')' is expected
C13_WitnessEndOfLine ==
    \E i \in 1..Len(calls) :
        /\ TypesOf(CallTokens(i)) = <<"LeftParenthesis", "Identifier">>
        /\ CallTokens(i)[2].value = IdHello.value
        /\ calls[i].res.kind = "err"
        /\ calls[i].res.err = Error("ExpectedCloseParen", EOLText, Location(0, 6))
        /\ BeforeResync(i).pos = 2

(***************************************************************************)
(* C14: when a complete expression has been parsed and a token of the same *)
(* line remains, the line fails with UnexpectedToken carrying the text and *)
(* location of the first token not consumed; the line yields no node, and  *)
(* parse returns no tree.                                                  *)
(***************************************************************************)
UnexpectedTokenError(token) ==
    Error("UnexpectedToken", token.value, <<token.line, token.column>>)

\* the line is a complete expression and then one token that cannot extend it
IsExprThenToken(toks, ln) ==
    /\ Len(toks) >= 2
    /\ parse_line(ButLast(toks), ln, 0).kind = "ok"
    /\ \/ LastOf(toks).ttype \in {"Number", "Identifier", "LeftParenthesis", "RightParenthesis"}
       \/ LastOf(toks).ttype = "Assign" /\ ~StartsAssignment(toks)
       \/ /\ LastOf(toks).ttype \in CompOps
          /\ TopOps(toks, 1, Len(toks) - 1, CompOps) # {}
          /\ ~StartsAssignment(toks)

Reported(err) ==
    pc = "parsed" =>
        /\ parsed.kind = "err"
        /\ \E k \in 1..Len(parsed.err.errors) : parsed.err.errors[k] = err

C14_LineConsumedToItsEnd ==
    \A i \in 1..Len(calls) :
        /\ (/\ parse_expr(input, calls[i].ln, calls[i].start).kind = "ok"
            /\ has_current(input, calls[i].ln,
                           parse_expr(input, calls[i].ln, calls[i].start).pos)) =>
              /\ calls[i].res.kind = "err"
              /\ calls[i].res.node = NoNode
              /\ results[i] = calls[i].res
              /\ calls[i].res.err =
                     UnexpectedTokenError(
                         input[parse_expr(input, calls[i].ln, calls[i].start).pos + 1])
              /\ Reported(calls[i].res.err)
        /\ IsExprThenToken(CallTokens(i), calls[i].ln) =>
              /\ calls[i].res.kind = "err"
              /\ calls[i].res.err = UnexpectedTokenError(LastOf(CallTokens(i)))
              /\ Reported(calls[i].res.err)
        /\ calls[i].res.kind = "ok" =>
              calls[i].res.pos = calls[i].start + Len(CallTokens(i))

\* 2.5 hello: the identifier is left over after the number
C14_Witness ==
    /\ pc = "parsed"
    /\ Len(calls) = 1
    /\ TypesOf(CallTokens(1)) = <<"Number", "Identifier">>
    /\ parsed = Err(MultipleErrors(<<Error("UnexpectedToken", IdHello.value, Location(0, 4))>>), 0)

(***************************************************************************)
(* Evaluation sessions: the statements of the parsed Root, the table each  *)
(* statement starts from, and the value of its expression.                 *)
(***************************************************************************)
Stmts == parsed.node.kids

SessionEnded == pc \in {"evaluated", "evaluated_new", "printed"}

\* the table the session's context was created with
StartTable ==
    IF pc = "evaluated_new" THEN [x \in {} |-> Zero] ELSE [x \in {PIName} |-> PIValue]

\* table with name mapped to v and every other key as it was
Bind(table, name, v) ==
    [x \in DOMAIN table \cup {name} |-> IF x = name THEN v ELSE table[x]]

\* the expression a statement evaluates: the right-hand side of an Assignment
ExprOf(stmt) == IF stmt.ntype = "Assignment" THEN stmt.kids[1] ELSE stmt

RECURSIVE TableAfter(_, _)
\* the table after the first k statements, each Assignment binding its name
TableAfter(stmts, k) ==
    IF k = 0 THEN StartTable
    ELSE IF stmts[k].ntype = "Assignment"
    THEN Bind(TableAfter(stmts, k - 1), stmts[k].name,
              eval(ExprOf(stmts[k]), TableAfter(stmts, k - 1)).val)
    ELSE TableAfter(stmts, k - 1)

\* the result of the expression of statement k in the table it starts from
ValueOf(stmts, k) == eval(ExprOf(stmts[k]), TableAfter(stmts, k - 1))

\* the number of statements completed: those before the first that fails
Done(stmts) ==
    Cardinality({k \in 1..Len(stmts) : \A j \in 1..k : ValueOf(stmts, j).kind = "ok"})

\* statement k assigns to name and nothing up to statement m assigns to it again
BoundSince(stmts, k, m, name) ==
    /\ stmts[k].ntype = "Assignment"
    /\ stmts[k].name = name
    /\ \A j \in (k + 1)..m : ~(stmts[j].ntype = "Assignment" /\ stmts[j].name = name)

(***************************************************************************)
(* C15: an Assignment whose value evaluates to v returns v and leaves the  *)
(* table equal to the table before with the name mapped to v (PI included, *)
(* no other key changed); a later statement that reads the name sees v.    *)
(***************************************************************************)
C15_AssignmentBindsName ==
    SessionEnded =>
        /\ syms = TableAfter(Stmts, Done(Stmts))
        /\ pc = "printed" =>
              \A k \in 1..Len(printed) :
                  /\ Stmts[k].ntype = "Assignment" => printed[k] = ValueOf(Stmts, k).val
                  /\ \A m \in (k + 1)..Len(printed) :
                        (/\ BoundSince(Stmts, k, m, Stmts[k].name)
                         /\ Stmts[m].ntype = "Identifier"
                         /\ Stmts[m].name = Stmts[k].name) => printed[m] = printed[k]
        /\ (/\ pc \in {"evaluated", "evaluated_new"}
            /\ evaluated.kind = "ok"
            /\ Stmts[Len(Stmts)].ntype = "Assignment") =>
              /\ evaluated.val = ValueOf(Stmts, Len(Stmts)).val
              /\ syms[Stmts[Len(Stmts)].name] = evaluated.val

\* PI = 2.5, hi = PI, hi: PI is overwritten, hi takes its new value and is read back
C15_Witness ==
    /\ pc = "printed"
    /\ Len(Stmts) = 3
    /\ Stmts[1].ntype = "Assignment"
    /\ Stmts[1].name = PIName
    /\ Stmts[3].ntype = "Identifier"
    /\ printed = <<Rat(5, 2), Rat(5, 2), Rat(5, 2)>>
    /\ syms = [x \in {PIName, IdHi.value} |-> Rat(5, 2)]

(***************************************************************************)
(* C16: an Identifier evaluates to the value the table holds for its name, *)
(* and when the name is not bound evaluation fails with                    *)
(* SymbolNotFound(name, location of the identifier node); a statement that *)
(* reads an unbound name never yields a value.                             *)
(***************************************************************************)
\* the identifier nodes of statement k whose name the table does not hold
Unbound(stmts, k) ==
    {n \in SubNodes(ExprOf(stmts[k])) :
        n.ntype = "Identifier" /\ n.name \notin DOMAIN TableAfter(stmts, k - 1)}

\* some identifier token of the input has this text and stands at this location
IsIdentifierAt(name, location) ==
    \E p \in 1..Len(input) :
        /\ input[p].ttype = "Identifier"
        /\ input[p].value = name
        /\ location = <<input[p].line, input[p].column>>

C16_IdentifierLookup ==
    (SessionEnded /\ Stmts # <<>>) =>
        /\ evaluated.kind \in {"ok", "err"}
        /\ evaluated.kind = "ok" <=> \A k \in 1..Len(Stmts) : Unbound(Stmts, k) = {}
        /\ evaluated.kind = "err" =>
              /\ evaluated.err.etype = "SymbolNotFound"
              /\ \E n \in Unbound(Stmts, Done(Stmts) + 1) :
                    /\ evaluated.err.text = n.name
                    /\ evaluated.err.location = n.location
              /\ IsIdentifierAt(evaluated.err.text, evaluated.err.location)
        /\ pc = "printed" =>
              \A k \in 1..Len(printed) :
                  Stmts[k].ntype = "Identifier" =>
                      /\ Stmts[k].name \in DOMAIN TableAfter(Stmts, k - 1)
                      /\ printed[k] = TableAfter(Stmts, k - 1)[Stmts[k].name]
        /\ (/\ pc \in {"evaluated", "evaluated_new"}
            /\ evaluated.kind = "ok"
            /\ Stmts[Len(Stmts)].ntype = "Identifier") =>
              evaluated.val = TableAfter(Stmts, Len(Stmts) - 1)[Stmts[Len(Stmts)].name]

\* 3 + hi with hi not bound: the error names hi and column 4
C16_Witness ==
    /\ pc = "evaluated"
    /\ Len(Stmts) = 1
    /\ Stmts[1].ntype = "Sum"
    /\ evaluated.kind = "err"
    /\ evaluated.err = Error("SymbolNotFound", IdHi.value, Location(0, 4))

(***************************************************************************)
(* C17: evaluation stops at the first failing subexpression, statements in *)
(* Root order and the left child of a binary operation before the right:   *)
(* its error is the result, no later statement is evaluated or printed,    *)
(* and the table keeps the effects of the statements completed before.     *)
(* When nothing fails every binary operation applies its operator to both  *)
(* children whatever the left value is, and eval of a Root with statements *)
(* returns the value of the last one.                                      *)
(***************************************************************************)
RECURSIVE FirstUnbound(_, _)
\* the first identifier node, left to right, that the table does not hold:
\* a sequence of one node, or of none
FirstUnbound(node, table) ==
    IF node.ntype = "Identifier"
    THEN (IF node.name \in DOMAIN table THEN <<>> ELSE <<node>>)
    ELSE IF Len(node.kids) = 2
    THEN (IF FirstUnbound(node.kids[1], table) # <<>>
          THEN FirstUnbound(node.kids[1], table)
          ELSE FirstUnbound(node.kids[2], table))
    ELSE <<>>

RECURSIVE Value(_, _)
\* the value of an expression all of whose identifiers are bound
Value(node, table) ==
    IF node.ntype = "Number" THEN node.num
    ELSE IF node.ntype = "Identifier" THEN table[node.name]
    ELSE apply_op(node.ntype, Value(node.kids[1], table), Value(node.kids[2], table))

FirstFailure(stmts) ==
    FirstUnbound(ExprOf(stmts[Done(stmts) + 1]), TableAfter(stmts, Done(stmts)))

C17_StopsAtFirstFailure ==
    (SessionEnded /\ Stmts # <<>>) =>
        /\ syms = TableAfter(Stmts, Done(Stmts))
        /\ Done(Stmts) < Len(Stmts) =>
              /\ evaluated.kind = "err"
              /\ FirstFailure(Stmts) # <<>>
              /\ evaluated.err =
                     Error("SymbolNotFound", FirstFailure(Stmts)[1].name,
                           FirstFailure(Stmts)[1].location)
        /\ Done(Stmts) = Len(Stmts) => evaluated.kind = "ok"
        /\ pc = "printed" =>
              /\ Len(printed) = Done(Stmts)
              /\ \A k \in 1..Len(printed) :
                    printed[k] = Value(ExprOf(Stmts[k]), TableAfter(Stmts, k - 1))
        /\ (pc \in {"evaluated", "evaluated_new"} /\ evaluated.kind = "ok") =>
              evaluated.val =
                  Value(ExprOf(Stmts[Len(Stmts)]), TableAfter(Stmts, Len(Stmts) - 1))

\* hi = 3 - 3, hi * hello, PI = 2.5: the product fails on hello although hi is 0,
\* and PI keeps its value
C17_Witness ==
    /\ pc = "printed"
    /\ Len(Stmts) = 3
    /\ Stmts[2].ntype = "Multiplication"
    /\ printed = <<Zero>>
    /\ evaluated.kind = "err"
    /\ evaluated.err = Error("SymbolNotFound", IdHello.value, Location(1, 5))
    /\ syms = [x \in {PIName, IdHi.value} |-> IF x = PIName THEN PIValue ELSE Zero]

\* hi + hello with neither bound: the error is that of hi, the left child
C17_WitnessLeftFirst ==
    /\ pc = "evaluated"
    /\ Len(Stmts) = 1
    /\ Stmts[1].ntype = "Sum"
    /\ Stmts[1].kids[2].name = IdHello.value
    /\ evaluated.err = Error("SymbolNotFound", IdHi.value, Location(0, 0))
    /\ IdHello.value \notin DOMAIN syms

(***************************************************************************)
(* C18: every session begins with PI bound, whichever way its context was  *)
(* created (EvalContext::new, EvalContext::populated, eval_and_print): a   *)
(* table never loses a key, so PI is bound when the session has ended, and *)
(* a first statement that reads PI does not fail on it.                    *)
(***************************************************************************)
C18_EverySessionSeededWithPI ==
    (SessionEnded /\ Stmts # <<>>) =>
        /\ PIName \in DOMAIN syms
        /\ (Stmts[1].ntype = "Identifier" /\ Stmts[1].name = PIName) =>
              ~(evaluated.kind = "err" /\ evaluated.err.text = PIName)

(***************************************************************************)
(* C19: only a successful Assignment changes the table: a session without  *)
(* an Assignment leaves it as it began, whether it succeeds or fails, and  *)
(* an Assignment whose value fails with SymbolNotFound neither creates nor *)
(* overwrites its name.                                                    *)
(***************************************************************************)
\* the names the completed Assignments of a session have bound
AssignedNames(stmts) ==
    {stmts[k].name : k \in {j \in 1..Done(stmts) : stmts[j].ntype = "Assignment"}}

C19_OnlyAssignmentMutates ==
    (SessionEnded /\ Stmts # <<>>) =>
        /\ DOMAIN syms = DOMAIN StartTable \cup AssignedNames(Stmts)
        /\ \A x \in DOMAIN syms \ AssignedNames(Stmts) : syms[x] = StartTable[x]
        /\ (\A k \in 1..Len(Stmts) : Stmts[k].ntype # "Assignment") => syms = StartTable
        /\ (/\ Done(Stmts) < Len(Stmts)
            /\ Stmts[Done(Stmts) + 1].ntype = "Assignment") =>
              /\ evaluated.kind = "err"
              /\ evaluated.err.etype = "SymbolNotFound"
              /\ syms = TableAfter(Stmts, Done(Stmts))
              /\ Stmts[Done(Stmts) + 1].name \in DOMAIN syms <=>
                    Stmts[Done(Stmts) + 1].name \in DOMAIN TableAfter(Stmts, Done(Stmts))

\* hi = 3, hi = hello: the second assignment fails and hi keeps the value 3
C19_Witness ==
    /\ pc = "evaluated"
    /\ Len(Stmts) = 2
    /\ Stmts[2].ntype = "Assignment"
    /\ Stmts[2].name = IdHi.value
    /\ evaluated.kind = "err"
    /\ evaluated.err = Error("SymbolNotFound", IdHello.value, Location(1, 5))
    /\ syms = [x \in {PIName, IdHi.value} |-> IF x = PIName THEN PIValue ELSE Rat(3, 1)]

\* hi = hello in a fresh session: hi is not created
C19_WitnessNotCreated ==
    /\ pc = "evaluated"
    /\ Len(Stmts) = 1
    /\ Stmts[1].ntype = "Assignment"
    /\ evaluated.kind = "err"
    /\ syms = [x \in {PIName} |-> PIValue]

(***************************************************************************)
(* C20: in the tree of a successful parse every node below the Root is     *)
(* located at the (line, column) of its defining token: the number or      *)
(* identifier token of a leaf, the operator token of a binary operation    *)
(* (its operands' tokens before and after it), the '=' token of an         *)
(* Assignment; the Root is located at (0,0).                               *)
(***************************************************************************)
\* the token type that defines a node of each type
DefiningType(ntype) ==
    CASE ntype = "Number" -> "Number"
      [] ntype = "Identifier" -> "Identifier"
      [] ntype = "Assignment" -> "Assign"
      [] ntype = "Sum" -> "Plus"
      [] ntype = "Substraction" -> "Minus"
      [] ntype = "Multiplication" -> "Times"
      [] ntype = "Division" -> "Div"
      [] OTHER -> ntype

\* the token of the input that stands at a location (no two tokens share one)
TokensAt(location) ==
    {p \in 1..Len(input) : <<input[p].line, input[p].column>> = location}

\* node is located at a token of its defining type, with its text for a leaf
AtDefiningToken(node) ==
    /\ Cardinality(TokensAt(node.location)) = 1
    /\ \A p \in TokensAt(node.location) :
          /\ input[p].ttype = DefiningType(node.ntype)
          /\ node.ntype = "Identifier" => input[p].value = node.name
          /\ node.ntype = "Number" => ParseF64(input[p].value).val = node.num

\* location a stands before location b on the same line
Before(a, b) == a[1] = b[1] /\ a[2] < b[2]

\* the tokens of the left operand stand before the operator, those of the right after
OperandsAround(node) ==
    /\ Len(node.kids) = 2 =>
          /\ \A l \in SubNodes(node.kids[1]) : Before(l.location, node.location)
          /\ \A r \in SubNodes(node.kids[2]) : Before(node.location, r.location)
    /\ node.ntype = "Assignment" =>
          \A r \in SubNodes(node.kids[1]) : Before(node.location, r.location)

C20_NodesLocatedAtTokens ==
    (pc = "parsed" /\ parsed.kind = "ok") =>
        /\ parsed.node.ntype = "Root"
        /\ parsed.node.location = <<0, 0>>
        /\ \A k \in 1..Len(Stmts) : \A n \in SubNodes(Stmts[k]) :
              /\ n.ntype # "Root"
              /\ n.location[1] = k - 1
              /\ AtDefiningToken(n)
              /\ OperandsAround(n)

\* hi = 3 - 3, hi * PI: '=' at (0,3), '-' at (0,7), '*' at (1,3), PI at (1,5)
C20_Witness ==
    /\ pc = "parsed"
    /\ parsed.kind = "ok"
    /\ Len(Stmts) = 2
    /\ Stmts[1].ntype = "Assignment"
    /\ Stmts[1].location = <<0, 3>>
    /\ Stmts[1].kids[1].ntype = "Substraction"
    /\ Stmts[1].kids[1].location = <<0, 7>>
    /\ Stmts[2].ntype = "Multiplication"
    /\ Stmts[2].location = <<1, 3>>
    /\ Stmts[2].kids[2].location = <<1, 5>>

(***************************************************************************)
(* C21: in the tree of a successful parse every child is a fully-formed    *)
(* expression node: a Root occurs only as the top node (the empty Root     *)
(* that parse_expr puts in a new Assignment is replaced by the parsed      *)
(* right-hand side), and an Assignment occurs only as a child of the Root. *)
(***************************************************************************)
\* the number of children a node of each type has
ArityOf(ntype) ==
    IF ntype \in {"Number", "Identifier"} THEN 0
    ELSE IF ntype = "Assignment" THEN 1
    ELSE 2

\* a node of an expression type with the children, name and number of its type
FullyFormed(node) ==
    /\ node.ntype \in {"Number", "Identifier", "Assignment"} \cup MulTypes \cup AddTypes \cup CompTypes
    /\ Len(node.kids) = ArityOf(node.ntype)
    /\ node.ntype \in {"Identifier", "Assignment"} <=> node.name # <<>>
    /\ node.ntype # "Number" => node.num = Zero

C21_ChildrenFullyFormed ==
    /\ \A i \in OkCalls : \A n \in SubNodes(calls[i].res.node) :
          /\ FullyFormed(n)
          /\ n.ntype = "Assignment" => n = calls[i].res.node
    /\ (pc = "parsed" /\ parsed.kind = "ok") =>
          /\ parsed.node.ntype = "Root"
          /\ \A k \in 1..Len(Stmts) : \A n \in SubNodes(Stmts[k]) :
                /\ FullyFormed(n)
                /\ n.ntype = "Assignment" => n = Stmts[k]

\* hi = 3 - 3, hi: the Assignment holds the Substraction, not the empty Root
C21_Witness ==
    /\ pc = "parsed"
    /\ parsed.kind = "ok"
    /\ Len(Stmts) = 2
    /\ Stmts[1].ntype = "Assignment"
    /\ Stmts[1].kids[1].ntype = "Substraction"
    /\ Stmts[2].ntype = "Identifier"

(***************************************************************************)
(* C22: parse terminates: until it has returned it is at a step it can     *)
(* take, and the line counter, which every call of parse_line              *)
(* increases by exactly one, never passes the line of the token under the  *)
(* cursor; the cursor stays within 0..input.len(), and when parse has      *)
(* returned the cursor is at the end of the input.                         *)
(***************************************************************************)
ParseReturned == parsed.kind \in {"ok", "err"}

\* parse is at one of its steps: its entry, a round of its loop, its fold; each
\* of them can be taken whenever parse stands there
ParseRunning == pc \in {"start", "loop", "fold"}

CursorInRange ==
    /\ position \in 0..Len(input)
    /\ \A i \in 1..Len(calls) :
          /\ calls[i].start <= BeforeResync(i).pos
          /\ BeforeResync(i).pos <= calls[i].res.pos
          /\ calls[i].res.pos <= Len(input)

\* the calls made so far are those for lines 0, 1, ..., line - 1
OneLinePerCall ==
    /\ Len(calls) = line
    /\ \A i \in 1..Len(calls) : calls[i].ln = i - 1

\* while the loop runs a token is left and the line counter has not passed its line
LinesLeft == pc = "loop" => position < Len(input) /\ line <= input[position + 1].line

C22_ParseReturnsAtEnd ==
    /\ CursorInRange
    /\ OneLinePerCall
    /\ LinesLeft
    /\ ParseReturned => position = Len(input)
    /\ ~ParseReturned => ParseRunning

(***************************************************************************)
(* C23: lines are parsed independently: a call of parse_line for line n    *)
(* sees and consumes tokens of line n only, and the result for each line   *)
(* of the input, tree or error, is the result that line has when it is the *)
(* whole input.                                                            *)
(***************************************************************************)
\* the result of call i is the result of its line parsed on its own
SameAsAlone(i) ==
    /\ calls[i].res.kind = Alone(input, calls[i].ln).kind
    /\ calls[i].res.node = Alone(input, calls[i].ln).node
    /\ calls[i].res.err = Alone(input, calls[i].ln).err

\* call i starts at the first token of its line, stops within the line, and
\* builds its tree from tokens of the line
StaysOnItsLine(i) ==
    /\ calls[i].start = FirstAfterLine(input, calls[i].ln - 1)
    /\ BeforeResync(i).pos <= calls[i].start + Len(CallTokens(i))
    /\ calls[i].res.kind = "ok" =>
          /\ calls[i].res.pos = calls[i].start + Len(CallTokens(i))
          /\ \A n \in SubNodes(calls[i].res.node) : n.location[1] = calls[i].ln

\* every call for a line that has tokens is independent of the other lines
CallsIndependent ==
    \A i \in 1..Len(calls) :
        CallTokens(i) # <<>> => StaysOnItsLine(i) /\ SameAsAlone(i)

\* when parse has returned every line of the input has had its call
EveryLineHasItsResult ==
    ParseReturned => \A n \in LinesOf(input) : \E i \in 1..Len(calls) : calls[i].ln = n

\* the error of a call names a location on the line of the call
ErrorsOnOwnLine ==
    \A i \in 1..Len(calls) :
        calls[i].res.kind = "err" => calls[i].res.err.location[1] = calls[i].ln

C23_LinesParsedIndependently ==
    CallsIndependent /\ EveryLineHasItsResult /\ ErrorsOnOwnLine

====
